---- MODULE Spec2Model ----
(***************************************************************************)
(* A state-machine model of the frame loop of src/Main.cpp                 *)
(* (Application::Run) and of the entity classes it drives.                 *)
(*                                                                         *)
(* Units.  Time is counted in ticks of 1/36 s, the coarsest unit in which  *)
(* the three firing intervals 1/18 s, 1/12 s and 1/2 s are whole numbers.  *)
(* Lengths are counted in 1/36 pixel, so that a velocity given in pixels   *)
(* per second is numerically the per-tick displacement and                 *)
(* position + velocity * dt is computed exactly as the code writes it.     *)
(* Angles of the ship are counted in 1/36 degree for the same reason.      *)
(* Floating point rounding is not modelled: arithmetic is exact on these   *)
(* grids; sqrtf, cosf and sinf are fixed-point approximations.             *)
(*                                                                         *)
(* Rendering state that no computation reads (asteroid rotation and        *)
(* rotationSpeed, projectile rotation, textures) is left out.              *)
(***************************************************************************)
EXTENDS Integers, Sequences, FiniteSets, TLC

VARIABLES
    C_WIDTH, C_HEIGHT,   \* viewport size in 1/36 pixel (monitor size)
    player,              \* the PlayerShip object Run owns
    asteroids,           \* std::vector<std::unique_ptr<Asteroid>>
    projectiles,         \* std::vector<Projectile>
    currentShape,        \* asteroid shape mode
    currentWeapon,       \* selected weapon
    spawnTimer, spawnInterval,
    shotTimer,
    input,               \* dt and keyboard state of the current frame
    pc,                  \* position of Run inside the loop body
    pit,                 \* index of the projectile pass A is at
    ait,                 \* index of the asteroid pass B is at
    marked,              \* indices remove_if has marked in pass B
    frame,               \* number of frames started
    nextId,              \* identity given to the next object created
    killed,              \* asteroids erased by pass A in this frame
    damagers,            \* identities of asteroids that damaged the player in this frame
    randomShape,         \* the draw of MakeAsteroid's default branch at the last
                         \* spawn step, -1 if that step made no draw
    sinceSpawn,          \* frame time elapsed since the start, the last restart
                         \* or the last spawn, whichever came last
    flight,              \* for each projectile in flight at the start of the frame
                         \* or fired in it: its kind and the frame time elapsed
                         \* since the start of the frame it was fired in
    struck               \* the last hit pass A resolved in this frame: the
                         \* projectile, the asteroids it overlapped, the one it damaged

vars == << C_WIDTH, C_HEIGHT, player, asteroids, projectiles, currentShape,
           currentWeapon, spawnTimer, spawnInterval, shotTimer, input, pc,
           pit, ait, marked, frame, nextId, killed, damagers,
           randomShape, sinceSpawn, flight, struck >>

---------------------------------------------------------------------------
(* Bounds of the exploration *)

MaxFrames == 4
CapFrames == 153
ShapeFrames == 2
LifeFrames == 5

(* Units *)
TicksPerSecond == 36
Px(n) == n * TicksPerSecond
Seconds(n) == n * TicksPerSecond

Abs(n) == IF n < 0 THEN -n ELSE n
Min(a, b) == IF a < b THEN a ELSE b

---------------------------------------------------------------------------
(* Math helpers: raymath and libm *)

RECURSIVE SqrtSearch(_, _, _)
SqrtSearch(n, lo, hi) ==
    IF lo >= hi THEN lo
    ELSE LET mid == (lo + hi + 1) \div 2
         IN IF mid * mid <= n THEN SqrtSearch(n, mid, hi)
                              ELSE SqrtSearch(n, lo, mid - 1)

\* sqrtf on whole numbers, rounded down
Sqrt(n) == SqrtSearch(n, 0, 46340)

\* sin of u/36 degrees, 0 <= u <= 180*36, times 1000 (Bhaskara's rational form)
HalfSine(u) ==
    LET p == (u * (Px(180) - u)) \div (TicksPerSecond * TicksPerSecond)
    IN (4000 * p) \div (40500 - p)

\* sinf and cosf of r/36 degrees, times 1000
SinMilli(r) ==
    LET m == r % Px(360)
    IN IF m <= Px(180) THEN HalfSine(m) ELSE -HalfSine(m - Px(180))

CosMilli(r) == SinMilli(r + Px(90))

\* Vector2Distance(p, q) < r, without squaring distances that are out of range
DistanceLess(x1, y1, x2, y2, r) ==
    LET dx == x1 - x2
        dy == y1 - y2
    IN /\ Abs(dx) < r
       /\ Abs(dy) < r
       /\ dx * dx + dy * dy < r * r

\* Vector2Scale(Vector2Normalize(d), speed), components rounded down;
\* the length is taken in whole pixels
ScaledDirection(dx, dy, speed) ==
    LET px == dx \div TicksPerSecond
        py == dy \div TicksPerSecond
        len == Sqrt(px * px + py * py)
    IN IF len = 0 THEN << 0, 0 >>
       ELSE << (px * speed) \div len, (py * speed) \div len >>

---------------------------------------------------------------------------
(* Renderable::Size *)
SMALL == 1
MEDIUM == 2
LARGE == 4
GIGA == 10

(* WeaponType *)
LASER == 0
BULLET == 1
MINE == 2
COUNT == 3

(* Asteroid constants *)
SPEED_MIN == 125
SPEED_MAX == 250

(* Application constants *)
MAX_AST == 150
C_SPAWN_MIN == TicksPerSecond \div 2
C_SPAWN_MAX == 3 * TicksPerSecond

---------------------------------------------------------------------------
(* Utils::RandomFloat: min + rand()/RAND_MAX * (max - min); the quotient   *)
(* rand()/RAND_MAX is the fraction f = <<numerator, denominator>> in [0,1] *)
RandomFloat(min, max, f) == min + ((max - min) * f[1]) \div f[2]

---------------------------------------------------------------------------
(* class Asteroid *)

\* Asteroid::GetRadius: 16.f * size
GetRadius(a) == Px(16) * a.size

GetDamage_NoSize(a) == a.baseDamage

\* Asteroid::GetDamage
GetDamage(a) == a.baseDamage * a.size

\* Asteroid::GetMaxHP
GetMaxHP(a) ==
    CASE a.size = SMALL -> 25
      [] a.size = MEDIUM -> 100
      [] a.size = LARGE -> 300
      [] a.size = GIGA -> 1000
      [] OTHER -> 1

TakeDamage_Add(a, dmg) == [a EXCEPT !.hp = @ + dmg]

\* Asteroid::TakeDamage
TakeDamage(a, dmg) == [a EXCEPT !.hp = @ - dmg]

IsDead_Strict(a) == a.hp < 0

IsDead_OnlyZero(a) == a.hp = 0

\* Asteroid::IsDead
IsDead(a) == a.hp <= 0

\* Asteroid::init, the spawn position: one of the four edges, offset outward
\* by GetRadius() of the object as it is when init runs
SpawnPosition(self, screenW, screenH, rnd) ==
    CASE rnd.edge = 0 -> << RandomFloat(0, screenW, rnd.along), -GetRadius(self) >>
      [] rnd.edge = 1 -> << screenW + GetRadius(self), RandomFloat(0, screenH, rnd.along) >>
      [] rnd.edge = 2 -> << RandomFloat(0, screenW, rnd.along), screenH + GetRadius(self) >>
      [] OTHER -> << -GetRadius(self), RandomFloat(0, screenH, rnd.along) >>

\* Asteroid::init, the aim point: the centre with a jitter of at most
\* 0.1 * min(screenW, screenH)
AimPoint(screenW, screenH, rnd) ==
    LET maxOff == Min(screenW, screenH) \div 10
        rad == RandomFloat(0, maxOff, rnd.rad)
    IN << screenW \div 2 + (CosMilli(rnd.ang) * rad) \div 1000,
          screenH \div 2 + (SinMilli(rnd.ang) * rad) \div 1000 >>

\* Asteroid::Asteroid: the base constructor runs init on an object whose
\* render.size still has its default member initializer (SMALL) and whose
\* baseDamage is 0; hp is not yet set (the subclass sets it before any read)
AsteroidBase(id, screenW, screenH, rnd) ==
    LET self == [size |-> SMALL, baseDamage |-> 0]
        pos == SpawnPosition(self, screenW, screenH, rnd)
        aim == AimPoint(screenW, screenH, rnd)
        vel == ScaledDirection(aim[1] - pos[1], aim[2] - pos[2],
                               RandomFloat(SPEED_MIN, SPEED_MAX, rnd.speed))
    IN [id |-> id, x |-> pos[1], y |-> pos[2], vx |-> vel[1], vy |-> vel[2],
        size |-> SMALL, baseDamage |-> 0, hp |-> 0]

\* The subclass constructor bodies: baseDamage, render.size, hp = GetMaxHP()
Subclass(base, baseDamage, size) ==
    LET sized == [base EXCEPT !.baseDamage = baseDamage, !.size = size]
    IN [sized EXCEPT !.hp = GetMaxHP(sized)]

TriangleAsteroid(id, w, h, rnd) == Subclass(AsteroidBase(id, w, h, rnd), 5, SMALL)
SquareAsteroid(id, w, h, rnd) == Subclass(AsteroidBase(id, w, h, rnd), 10, MEDIUM)
PentagonAsteroid(id, w, h, rnd) == Subclass(AsteroidBase(id, w, h, rnd), 15, LARGE)
GigaAsteroid(id, w, h, rnd) == Subclass(AsteroidBase(id, w, h, rnd), 10, GIGA)

\* MakeAsteroid, the RANDOM branch: the class for a draw of GetRandomValue(0, 99)
RandomShape_Inclusive(drawn) ==
    IF drawn <= 45 THEN "TRIANGLE"
    ELSE IF drawn <= 75 THEN "SQUARE"
    ELSE IF drawn <= 95 THEN "PENTAGON"
    ELSE "GIGA"

RandomShape(drawn) ==
    IF drawn < 45 THEN "TRIANGLE"
    ELSE IF drawn < 75 THEN "SQUARE"
    ELSE IF drawn < 95 THEN "PENTAGON"
    ELSE "GIGA"

\* MakeAsteroid
MakeAsteroid(id, w, h, shape, drawn, rnd) ==
    LET s == IF shape \in {"TRIANGLE", "SQUARE", "PENTAGON", "GIGA"}
             THEN shape ELSE RandomShape(drawn)
    IN CASE s = "TRIANGLE" -> TriangleAsteroid(id, w, h, rnd)
         [] s = "SQUARE" -> SquareAsteroid(id, w, h, rnd)
         [] s = "PENTAGON" -> PentagonAsteroid(id, w, h, rnd)
         [] OTHER -> GigaAsteroid(id, w, h, rnd)

\* Asteroid::Update, the integration
AsteroidMoved(a, dt) == [a EXCEPT !.x = @ + a.vx * dt, !.y = @ + a.vy * dt]

AsteroidInBounds_Closed(a, screenW, screenH) ==
    ~ ( \/ a.x <= -GetRadius(a)
        \/ a.x >= screenW + GetRadius(a)
        \/ a.y <= -GetRadius(a)
        \/ a.y >= screenH + GetRadius(a) )

\* Asteroid::Update, the returned flag: false iff outside the viewport
\* extended by the radius
AsteroidInBounds(a, screenW, screenH) ==
    ~ ( \/ a.x < -GetRadius(a)
        \/ a.x > screenW + GetRadius(a)
        \/ a.y < -GetRadius(a)
        \/ a.y > screenH + GetRadius(a) )

---------------------------------------------------------------------------
(* class Projectile *)

\* Projectile::GetRadius
ProjectileRadius(p) ==
    CASE p.type = LASER -> Px(2)
      [] p.type = BULLET -> Px(5)
      [] p.type = MINE -> Px(10)

\* MakeProjectile; the lifetime is 10 seconds for every kind
MakeProjectile(id, wt, pos, speed, rot) ==
    LET vel == << (CosMilli(rot) * speed) \div 1000, (SinMilli(rot) * speed) \div 1000 >>
        proj(v, dmg) == [id |-> id, x |-> pos[1], y |-> pos[2], vx |-> v[1], vy |-> v[2],
                         dmg |-> dmg, type |-> wt, life |-> Seconds(10)]
    IN IF wt = LASER THEN proj(vel, 17)
       ELSE IF wt = BULLET THEN proj(vel, 25)
       ELSE proj(<< 0, 0 >>, 150)

ProjectileMoved_NoAging(p, dt) ==
    [p EXCEPT !.x = @ + p.vx * dt, !.y = @ + p.vy * dt]

\* Projectile::Update, the integration
ProjectileMoved(p, dt) ==
    [p EXCEPT !.x = @ + p.vx * dt, !.y = @ + p.vy * dt, !.life = @ - dt]

ProjectileGone_NoExpiry(p, screenW, screenH) ==
    \/ p.x < 0
    \/ p.x > screenW
    \/ p.y < 0
    \/ p.y > screenH

\* Projectile::Update, the returned flag: true iff out of the viewport or expired
ProjectileGone(p, screenW, screenH) ==
    \/ p.x < 0
    \/ p.x > screenW
    \/ p.y < 0
    \/ p.y > screenH
    \/ p.life <= 0

---------------------------------------------------------------------------
(* class Ship / PlayerShip *)

\* height in pixels of the texture tekstury/spaceship1.png
TextureHeight == 256

\* PlayerShip::GetRadius: texture.height * scale * 0.5 with scale 0.25
PlayerRadius == (Px(TextureHeight) * 25) \div 200

\* Ship::Ship: centred, hp 100, alive; rotation is zero-initialised
Ship(screenW, screenH) ==
    [x |-> screenW \div 2, y |-> screenH \div 2, rotation |-> 0,
     hp |-> 100, speed |-> 250, rSpeed |-> 70, alive |-> TRUE]

ShipTakeDamage_Strict(s, dmg) ==
    IF ~s.alive THEN s
    ELSE LET hit == [s EXCEPT !.hp = @ - dmg]
         IN IF hit.hp < 0 THEN [hit EXCEPT !.alive = FALSE] ELSE hit

ShipTakeDamage_NoDeath(s, dmg) ==
    IF ~s.alive THEN s ELSE [s EXCEPT !.hp = @ - dmg]

\* Ship::TakeDamage
ShipTakeDamage(s, dmg) ==
    IF ~s.alive THEN s
    ELSE LET hit == [s EXCEPT !.hp = @ - dmg]
         IN IF hit.hp <= 0 THEN [hit EXCEPT !.alive = FALSE] ELSE hit

\* Ship::GetFireRate, shots per second
GetFireRate(wt) ==
    CASE wt = LASER -> 18
      [] wt = BULLET -> 12
      [] wt = MINE -> 2

\* Ship::GetSpacing
GetSpacing(wt) == IF wt = LASER THEN 40 ELSE 20

\* 1.f / GetFireRate(wt), in ticks
Interval(wt) == TicksPerSecond \div GetFireRate(wt)

PlayerUpdate_NoDeathCheck(s, dt, down) ==
    [s EXCEPT
        !.y = @ - (IF "W" \in down THEN s.speed * dt ELSE 0)
                + (IF "S" \in down THEN s.speed * dt ELSE 0),
        !.x = @ - (IF "A" \in down THEN s.speed * dt ELSE 0)
                + (IF "D" \in down THEN s.speed * dt ELSE 0),
        !.rotation = @ - (IF "Q" \in down THEN s.rSpeed * dt ELSE 0)
                       + (IF "E" \in down THEN s.rSpeed * dt ELSE 0)]

\* PlayerShip::Update
PlayerUpdate(s, dt, down) ==
    IF s.alive
    THEN [s EXCEPT
            !.y = @ - (IF "W" \in down THEN s.speed * dt ELSE 0)
                    + (IF "S" \in down THEN s.speed * dt ELSE 0),
            !.x = @ - (IF "A" \in down THEN s.speed * dt ELSE 0)
                    + (IF "D" \in down THEN s.speed * dt ELSE 0),
            !.rotation = @ - (IF "Q" \in down THEN s.rSpeed * dt ELSE 0)
                           + (IF "E" \in down THEN s.rSpeed * dt ELSE 0)]
    ELSE [s EXCEPT !.y = @ + s.speed * dt]

---------------------------------------------------------------------------
(* Inputs of a frame: GetFrameTime() and the keyboard state raylib polled  *)
(* for it (IsKeyDown: down, IsKeyPressed: pressed)                         *)

In(dt, down, pressed) == [dt |-> dt, down |-> down, pressed |-> pressed]

IsKeyDown(k) == k \in input.down
IsKeyPressed(k) == k \in input.pressed

\* Frame inputs explored by Spec
FrameInputs ==
    { In(0, {"SPACE"}, {"ONE", "TWO"}),
      In(1, {"SPACE", "S", "D", "E"}, {"THREE"}),
      In(2, {"SPACE"}, {}),
      In(2, {"SPACE"}, {"TAB"}),
      In(3, {"SPACE"}, {}),
      In(3, {"SPACE", "W", "A", "Q"}, {"TAB", "FOUR", "FIVE"}),
      In(18, {}, {"TAB"}),
      In(18, {"SPACE"}, {"R"}) }

\* Values of rand()/RAND_MAX explored
Zero == << 0, 1 >>
Half == << 1, 2 >>
One == << 1, 1 >>

\* A draw of Asteroid::init: edge, position along the edge, jitter angle
\* (1/36 degree) and radius, speed
Draw(edge, along, ang, rad, speed) ==
    [edge |-> edge, along |-> along, ang |-> ang, rad |-> rad, speed |-> speed]

\* The draws of one spawn: GetRandomValue(0, 99) of MakeAsteroid, the draws of
\* Asteroid::init, and the draw of the next spawn interval
Outcome(drawn, rnd, interval) ==
    [randomShape |-> drawn, rnd |-> rnd, interval |-> interval]

\* Spawn outcomes explored by Spec: the ends of each band of the shape draw,
\* every edge, the ends and the middle of the speed and interval ranges
SpawnOutcomes ==
    { Outcome(0, Draw(0, Half, 0, Zero, Zero), Zero),
      Outcome(44, Draw(1, Half, 0, Zero, One), << 1, 45 >>),
      Outcome(45, Draw(0, Half, 0, Zero, Zero), << 1, 45 >>),
      Outcome(74, Draw(2, Zero, Px(180), Half, Half), Zero),
      Outcome(75, Draw(3, One, Px(90), One, Half), One),
      Outcome(94, Draw(0, Half, 0, Zero, One), Zero),
      Outcome(95, Draw(0, Half, 0, Zero, Zero), Zero),
      Outcome(99, Draw(2, Half, 0, Zero, Half), One) }

\* Draws of the spawn interval at start and restart explored by Spec:
\* 0.5 s and 0.5 s + 2 ticks
IntervalDraws == {Zero, << 1, 45 >>}

\* Monitor sizes (GetMonitorWidth, GetMonitorHeight) explored by Spec, in pixels
Monitors == { << 240, 180 >> }

\* SpecCap, the run that fills the asteroid population: a monitor wide enough
\* for 150 asteroids to be in flight at once, idle frames of 0.5 s, and every
\* spawn a SMALL asteroid from the middle of the left edge at the lowest
\* speed, aimed past the player, with the shortest next interval
CapMonitors == { << 10000, 10000 >> }
CapInputs == { In(18, {}, {}) }
CapOutcomes == { Outcome(0, Draw(3, Half, Px(90), One, Zero), Zero) }
CapIntervalDraws == { Zero }

\* SpecShape, the run over every value of the shape draw: idle frames of
\* 0.5 s, each with a spawn from the middle of the top edge; the shape keys
\* select each mode
ShapeInputs ==
    { In(18, {}, pressed) :
        pressed \in { {}, {"ONE"}, {"TWO"}, {"THREE"}, {"FOUR"}, {"FIVE"} } }
ShapeOutcomes == { Outcome(drawn, Draw(0, Half, 0, Zero, Zero), Zero) : drawn \in 0 .. 99 }

\* SpecLife, the run of long frames in which projectiles use up their 10 s
\* and asteroids cross the viewport: frames of 10/3 s and 2 s (a stalled
\* window) and of 1/36 s; a SMALL asteroid from the middle of the left edge
\* flying level at 136 pixels per second, a SMALL one from the top at
\* 250 pixels per second, and a GIGA one from the top
LifeInputs ==
    { In(120, {"SPACE"}, {"TAB"}),
      In(120, {"SPACE"}, {}),
      In(72, {}, {"R"}),
      In(1, {"SPACE"}, {}) }
LifeOutcomes ==
    { Outcome(0, Draw(3, Half, 0, Zero, << 11, 125 >>), Zero),
      Outcome(0, Draw(0, Half, 0, Zero, One), Zero),
      Outcome(99, Draw(0, Half, 0, Zero, Zero), Zero) }

---------------------------------------------------------------------------
(* Sequence helpers: std::vector::erase and std::remove_if *)

Erase(s, i) == SubSeq(s, 1, i - 1) \o SubSeq(s, i + 1, Len(s))

\* std::remove_if and erase: the unmarked elements, in their order
EraseMarked(s, m) ==
    LET Unmarked(i) == i \notin m
        left == SelectSeq([i \in 1 .. Len(s) |-> i], Unmarked)
    IN [k \in 1 .. Len(left) |-> s[left[k]]]

\* The elements of a sequence, and the identities of the objects in it
Range(s) == {s[i] : i \in 1 .. Len(s)}
Ids(s) == {s[i].id : i \in 1 .. Len(s)}

---------------------------------------------------------------------------
(* Application::Run *)

\* No hit resolved yet in this frame
NoHit == [id |-> 0, x |-> 0, y |-> 0, target |-> 0, overlapped |-> {}]

\* Run up to the loop: the player, the timers, the weapon; Application's
\* member initialisers: empty vectors, currentShape RANDOM
InitWith(monitors, draws) ==
    /\ \E m \in monitors : C_WIDTH = Px(m[1]) /\ C_HEIGHT = Px(m[2])
    /\ player = Ship(C_WIDTH, C_HEIGHT)
    /\ asteroids = << >>
    /\ projectiles = << >>
    /\ currentShape = "RANDOM"
    /\ currentWeapon = LASER
    /\ spawnTimer = 0
    /\ \E f \in draws : spawnInterval = RandomFloat(C_SPAWN_MIN, C_SPAWN_MAX, f)
    /\ shotTimer = 0
    /\ input = In(0, {}, {})
    /\ pc = "frame"
    /\ pit = 0
    /\ ait = 0
    /\ marked = {}
    /\ frame = 0
    /\ nextId = 1
    /\ killed = {}
    /\ damagers = {}
    /\ randomShape = -1
    /\ sinceSpawn = 0
    /\ flight = << >>
    /\ struck = NoHit

Init == InitWith(Monitors, IntervalDraws)

\* while (!WindowShouldClose()): dt = GetFrameTime(); spawnTimer += dt
BeginFrame(inputs, maxFrames) ==
    /\ pc = "frame"
    /\ frame < maxFrames
    /\ \E in \in inputs :
         /\ input' = in
         /\ spawnTimer' = spawnTimer + in.dt
         /\ sinceSpawn' = sinceSpawn + in.dt
         /\ flight' = [i \in Ids(projectiles) |-> [flight[i] EXCEPT !.time = @ + in.dt]]
    /\ frame' = frame + 1
    /\ killed' = {}
    /\ damagers' = {}
    /\ pc' = "player"
    /\ UNCHANGED << C_WIDTH, C_HEIGHT, player, asteroids, projectiles, currentShape,
                    currentWeapon, spawnInterval, shotTimer, pit, ait, marked, nextId,
                    randomShape >>
    /\ struck' = NoHit

\* player->Update(dt)
UpdatePlayer ==
    /\ pc = "player"
    /\ player' = PlayerUpdate(player, input.dt, input.down)
    /\ pc' = "restart"
    /\ UNCHANGED << C_WIDTH, C_HEIGHT, asteroids, projectiles, currentShape,
                    currentWeapon, spawnTimer, spawnInterval, shotTimer, input,
                    pit, ait, marked, frame, nextId, killed, damagers,
                    randomShape, sinceSpawn, flight, struck >>

RestartLogic_KeepTimer(draws) ==
    /\ pc = "restart"
    /\ IF ~player.alive /\ IsKeyPressed("R")
       THEN /\ player' = Ship(C_WIDTH, C_HEIGHT)
            /\ asteroids' = << >>
            /\ projectiles' = << >>
            /\ \E f \in draws :
                 spawnInterval' = RandomFloat(C_SPAWN_MIN, C_SPAWN_MAX, f)
            /\ UNCHANGED spawnTimer
       ELSE UNCHANGED << player, asteroids, projectiles, spawnTimer, spawnInterval >>
    /\ sinceSpawn' = IF ~player.alive /\ IsKeyPressed("R") THEN 0 ELSE sinceSpawn
    /\ pc' = "shape"
    /\ UNCHANGED << C_WIDTH, C_HEIGHT, currentShape, currentWeapon, shotTimer, input,
                    pit, ait, marked, frame, nextId, killed, damagers,
                    randomShape, flight, struck >>

RestartLogic_KeepAsteroids(draws) ==
    /\ pc = "restart"
    /\ IF ~player.alive /\ IsKeyPressed("R")
       THEN /\ player' = Ship(C_WIDTH, C_HEIGHT)
            /\ projectiles' = << >>
            /\ spawnTimer' = 0
            /\ \E f \in draws :
                 spawnInterval' = RandomFloat(C_SPAWN_MIN, C_SPAWN_MAX, f)
            /\ UNCHANGED asteroids
       ELSE UNCHANGED << player, asteroids, projectiles, spawnTimer, spawnInterval >>
    /\ sinceSpawn' = IF ~player.alive /\ IsKeyPressed("R") THEN 0 ELSE sinceSpawn
    /\ pc' = "shape"
    /\ UNCHANGED << C_WIDTH, C_HEIGHT, currentShape, currentWeapon, shotTimer, input,
                    pit, ait, marked, frame, nextId, killed, damagers,
                    randomShape, flight, struck >>

\* Restart logic
RestartLogic(draws) ==
    /\ pc = "restart"
    /\ IF ~player.alive /\ IsKeyPressed("R")
       THEN /\ player' = Ship(C_WIDTH, C_HEIGHT)
            /\ asteroids' = << >>
            /\ projectiles' = << >>
            /\ spawnTimer' = 0
            /\ \E f \in draws :
                 spawnInterval' = RandomFloat(C_SPAWN_MIN, C_SPAWN_MAX, f)
       ELSE UNCHANGED << player, asteroids, projectiles, spawnTimer, spawnInterval >>
    /\ sinceSpawn' = IF ~player.alive /\ IsKeyPressed("R") THEN 0 ELSE sinceSpawn
    /\ pc' = "shape"
    /\ UNCHANGED << C_WIDTH, C_HEIGHT, currentShape, currentWeapon, shotTimer, input,
                    pit, ait, marked, frame, nextId, killed, damagers,
                    randomShape, flight, struck >>

\* Asteroid shape switch: five ifs in the order ONE, TWO, THREE, FIVE, FOUR
ShapeAfterKeys(shape) ==
    LET s1 == IF IsKeyPressed("ONE") THEN "TRIANGLE" ELSE shape
        s2 == IF IsKeyPressed("TWO") THEN "SQUARE" ELSE s1
        s3 == IF IsKeyPressed("THREE") THEN "PENTAGON" ELSE s2
        s4 == IF IsKeyPressed("FIVE") THEN "RANDOM" ELSE s3
    IN IF IsKeyPressed("FOUR") THEN "GIGA" ELSE s4

ShapeSwitch ==
    /\ pc = "shape"
    /\ currentShape' = ShapeAfterKeys(currentShape)
    /\ pc' = "weapon"
    /\ UNCHANGED << C_WIDTH, C_HEIGHT, player, asteroids, projectiles,
                    currentWeapon, spawnTimer, spawnInterval, shotTimer, input,
                    pit, ait, marked, frame, nextId, killed, damagers,
                    randomShape, sinceSpawn, flight, struck >>

\* Weapon switch
NextWeapon(wt) == (wt + 1) % COUNT

WeaponSwitch ==
    /\ pc = "weapon"
    /\ currentWeapon' = IF IsKeyPressed("TAB") THEN NextWeapon(currentWeapon)
                                               ELSE currentWeapon
    /\ pc' = "shoot"
    /\ UNCHANGED << C_WIDTH, C_HEIGHT, player, asteroids, projectiles, currentShape,
                    spawnTimer, spawnInterval, shotTimer, input,
                    pit, ait, marked, frame, nextId, killed, damagers,
                    randomShape, sinceSpawn, flight, struck >>

\* Shooting, the muzzle: the player's position moved by its radius along
\* rot_deg = GetAngle() - 90
Muzzle(s) ==
    LET rot == s.rotation - Px(90)
    IN << s.x + (CosMilli(rot) * PlayerRadius) \div 1000,
          s.y + (SinMilli(rot) * PlayerRadius) \div 1000 >>

RECURSIVE FireLoop_Strict(_, _, _, _, _)
FireLoop_Strict(timer, projs, id, wt, s) ==
    IF timer > Interval(wt)
    THEN FireLoop_Strict(timer - Interval(wt),
                         Append(projs, MakeProjectile(id, wt, Muzzle(s),
                                                      GetSpacing(wt) * GetFireRate(wt),
                                                      s.rotation - Px(90))),
                         id + 1, wt, s)
    ELSE [timer |-> timer, projs |-> projs, id |-> id]

\* Shooting, the loop while (shotTimer >= interval): one projectile and one
\* interval off the timer per turn
RECURSIVE FireLoop(_, _, _, _, _)
FireLoop(timer, projs, id, wt, s) ==
    IF timer >= Interval(wt)
    THEN FireLoop(timer - Interval(wt),
                  Append(projs, MakeProjectile(id, wt, Muzzle(s),
                                               GetSpacing(wt) * GetFireRate(wt),
                                               s.rotation - Px(90))),
                  id + 1, wt, s)
    ELSE [timer |-> timer, projs |-> projs, id |-> id]

IdleTimer_NoClamp(timer, wt) == timer

\* Shooting, the idle branch: fmodf when the timer exceeds the interval
IdleTimer(timer, wt) ==
    LET maxInterval == Interval(wt)
    IN IF timer > maxInterval THEN timer % maxInterval ELSE timer

Shooting ==
    /\ pc = "shoot"
    /\ IF player.alive /\ IsKeyDown("SPACE")
       THEN LET fired == FireLoop(shotTimer + input.dt, projectiles, nextId,
                                  currentWeapon, player)
            IN /\ shotTimer' = fired.timer
               /\ projectiles' = fired.projs
               /\ nextId' = fired.id
       ELSE /\ shotTimer' = IdleTimer(shotTimer, currentWeapon)
            /\ UNCHANGED << projectiles, nextId >>
    /\ flight' = [i \in DOMAIN flight \cup (nextId .. nextId' - 1) |->
                     IF i \in DOMAIN flight THEN flight[i]
                     ELSE [type |-> currentWeapon, time |-> input.dt]]
    /\ pc' = "spawn"
    /\ UNCHANGED << C_WIDTH, C_HEIGHT, player, asteroids, currentShape, currentWeapon,
                    spawnTimer, spawnInterval, input,
                    pit, ait, marked, frame, killed, damagers,
                    randomShape, sinceSpawn, struck >>

SpawnDue_OffByOne == spawnTimer >= spawnInterval /\ Len(asteroids) <= MAX_AST

\* Spawn asteroids, the condition
SpawnDue == spawnTimer >= spawnInterval /\ Len(asteroids) < MAX_AST

SpawnAsteroids(outcomes) ==
    /\ pc = "spawn"
    /\ IF SpawnDue
       THEN /\ \E o \in outcomes :
                 /\ asteroids' = Append(asteroids,
                                        MakeAsteroid(nextId, C_WIDTH, C_HEIGHT,
                                                     currentShape, o.randomShape, o.rnd))
                 /\ spawnInterval' = RandomFloat(C_SPAWN_MIN, C_SPAWN_MAX, o.interval)
                 /\ randomShape' = IF currentShape \in {"TRIANGLE", "SQUARE", "PENTAGON", "GIGA"}
                                   THEN -1 ELSE o.randomShape
            /\ nextId' = nextId + 1
            /\ spawnTimer' = 0
       ELSE /\ randomShape' = -1
            /\ UNCHANGED << asteroids, nextId, spawnTimer, spawnInterval >>
    /\ sinceSpawn' = IF Len(asteroids') = Len(asteroids) + 1 THEN 0 ELSE sinceSpawn
    /\ pc' = "projectiles"
    /\ UNCHANGED << C_WIDTH, C_HEIGHT, player, projectiles, currentShape, currentWeapon,
                    shotTimer, input, pit, ait, marked, frame, killed, damagers, flight, struck >>

\* Update projectiles: remove_if over projectile.Update(dt), then erase
ProjectilesUpdated(projs, dt, screenW, screenH) ==
    LET moved == [i \in 1 .. Len(projs) |-> ProjectileMoved(projs[i], dt)]
        Stays(p) == ~ProjectileGone(p, screenW, screenH)
    IN SelectSeq(moved, Stays)

UpdateProjectiles ==
    /\ pc = "projectiles"
    /\ projectiles' = ProjectilesUpdated(projectiles, input.dt, C_WIDTH, C_HEIGHT)
    /\ pc' = "passA"
    /\ pit' = 1
    /\ UNCHANGED << C_WIDTH, C_HEIGHT, player, asteroids, currentShape, currentWeapon,
                    spawnTimer, spawnInterval, shotTimer, input,
                    ait, marked, frame, nextId, killed, damagers,
                    randomShape, sinceSpawn, flight, struck >>

\* Projectile-asteroid collisions, the overlap test
Hits(p, a) == DistanceLess(p.x, p.y, a.x, a.y, ProjectileRadius(p) + GetRadius(a))

\* The nearest of the asteroids the projectile overlaps
FirstHit_Nearest(p, asts) ==
    LET hit == {j \in 1 .. Len(asts) : Hits(p, asts[j])}
        D(a) == (a.x - p.x) * (a.x - p.x) + (a.y - p.y) * (a.y - p.y)
    IN IF hit = {} THEN 0
       ELSE CHOOSE j \in hit : \A k \in hit :
                D(asts[j]) < D(asts[k]) \/ (D(asts[j]) = D(asts[k]) /\ j <= k)

\* The inner loop: the index of the first asteroid the projectile overlaps, 0 if none
FirstHit(p, asts) ==
    LET hit == {j \in 1 .. Len(asts) : Hits(p, asts[j])}
    IN IF hit = {} THEN 0 ELSE CHOOSE j \in hit : \A k \in hit : j <= k

AsteroidsAfterHit_NoErase(asts, j, dmg) ==
    [asts EXCEPT ![j] = TakeDamage(asts[j], dmg)]

\* The body of the if: TakeDamage, erase the asteroid if dead
AsteroidsAfterHit(asts, j, dmg) ==
    LET a == TakeDamage(asts[j], dmg)
    IN IF IsDead(a) THEN Erase(asts, j) ELSE [asts EXCEPT ![j] = a]

\* One turn of the outer loop of the projectile-asteroid pass (pass A), or
\* its end when pit has reached projectiles.end()
ProjectileAsteroidCollisions ==
    /\ pc = "passA"
    /\ IF pit <= Len(projectiles)
       THEN LET p == projectiles[pit]
                j == FirstHit(p, asteroids)
            IN IF j # 0
               THEN /\ asteroids' = AsteroidsAfterHit(asteroids, j, p.dmg)
                    /\ killed' = IF IsDead(TakeDamage(asteroids[j], p.dmg))
                                 THEN killed \cup {asteroids[j]} ELSE killed
                    /\ projectiles' = Erase(projectiles, pit)
                    /\ struck' = [id |-> p.id, x |-> p.x, y |-> p.y,
                                  target |-> asteroids[j].id,
                                  overlapped |-> {a.id : a \in {b \in Range(asteroids) : Hits(p, b)}}]
                    /\ UNCHANGED << pit, pc, ait >>
               ELSE /\ pit' = pit + 1
                    /\ UNCHANGED << asteroids, killed, projectiles, pc, ait, struck >>
       ELSE /\ pc' = "passB"
            /\ ait' = 1
            /\ pit' = 0
            /\ UNCHANGED << asteroids, killed, projectiles, struck >>
    /\ UNCHANGED << C_WIDTH, C_HEIGHT, player, currentShape, currentWeapon,
                    spawnTimer, spawnInterval, shotTimer, input,
                    marked, frame, nextId, damagers,
                    randomShape, sinceSpawn, flight >>

\* Asteroid-ship collisions, the overlap test of the remove_collision lambda
Collides(s, a) == DistanceLess(s.x, s.y, a.x, a.y, PlayerRadius + GetRadius(a))

\* One call of the remove_collision lambda by std::remove_if (pass B), or the
\* erase of the marked asteroids at the end of the scan; rendering reads only
AsteroidShipCollisions ==
    /\ pc = "passB"
    /\ IF ait <= Len(asteroids)
       THEN LET a == asteroids[ait]
            IN /\ IF player.alive /\ Collides(player, a)
                  THEN /\ player' = ShipTakeDamage(player, GetDamage(a))
                       /\ damagers' = damagers \cup {a.id}
                       /\ marked' = marked \cup {ait}
                       /\ UNCHANGED asteroids
                  ELSE LET moved == AsteroidMoved(a, input.dt)
                       IN /\ asteroids' = [asteroids EXCEPT ![ait] = moved]
                          /\ marked' = IF AsteroidInBounds(moved, C_WIDTH, C_HEIGHT)
                                       THEN marked ELSE marked \cup {ait}
                          /\ UNCHANGED << player, damagers >>
               /\ ait' = ait + 1
               /\ UNCHANGED pc
       ELSE /\ asteroids' = EraseMarked(asteroids, marked)
            /\ marked' = {}
            /\ ait' = 0
            /\ pc' = "frame"
            /\ UNCHANGED << player, damagers >>
    /\ UNCHANGED << C_WIDTH, C_HEIGHT, projectiles, currentShape, currentWeapon,
                    spawnTimer, spawnInterval, shotTimer, input,
                    pit, frame, nextId, killed,
                    randomShape, sinceSpawn, flight, struck >>

Next ==
    \/ BeginFrame(FrameInputs, MaxFrames)
    \/ UpdatePlayer
    \/ RestartLogic(IntervalDraws)
    \/ ShapeSwitch
    \/ WeaponSwitch
    \/ Shooting
    \/ SpawnAsteroids(SpawnOutcomes)
    \/ UpdateProjectiles
    \/ ProjectileAsteroidCollisions
    \/ AsteroidShipCollisions

Spec == Init /\ [][Next]_vars

\* The run that fills the asteroid population to MAX_AST
InitCap == InitWith(CapMonitors, CapIntervalDraws)

NextCap ==
    \/ BeginFrame(CapInputs, CapFrames)
    \/ UpdatePlayer
    \/ RestartLogic(CapIntervalDraws)
    \/ ShapeSwitch
    \/ WeaponSwitch
    \/ Shooting
    \/ SpawnAsteroids(CapOutcomes)
    \/ UpdateProjectiles
    \/ ProjectileAsteroidCollisions
    \/ AsteroidShipCollisions

SpecCap == InitCap /\ [][NextCap]_vars

\* The run over every value of GetRandomValue(0, 99)
InitShape == InitWith(Monitors, CapIntervalDraws)

NextShape ==
    \/ BeginFrame(ShapeInputs, ShapeFrames)
    \/ UpdatePlayer
    \/ RestartLogic(CapIntervalDraws)
    \/ ShapeSwitch
    \/ WeaponSwitch
    \/ Shooting
    \/ SpawnAsteroids(ShapeOutcomes)
    \/ UpdateProjectiles
    \/ ProjectileAsteroidCollisions
    \/ AsteroidShipCollisions

SpecShape == InitShape /\ [][NextShape]_vars

\* The run of long frames
InitLife == InitWith(Monitors, CapIntervalDraws)

NextLife ==
    \/ BeginFrame(LifeInputs, LifeFrames)
    \/ UpdatePlayer
    \/ RestartLogic(CapIntervalDraws)
    \/ ShapeSwitch
    \/ WeaponSwitch
    \/ Shooting
    \/ SpawnAsteroids(LifeOutcomes)
    \/ UpdateProjectiles
    \/ ProjectileAsteroidCollisions
    \/ AsteroidShipCollisions

SpecLife == InitLife /\ [][NextLife]_vars

---------------------------------------------------------------------------
(* Properties *)

\* The step about to be taken is a turn of pass A on a projectile that overlaps an asteroid
ResolvingHit ==
    /\ pc = "passA"
    /\ pit <= Len(projectiles)
    /\ \E j \in 1 .. Len(asteroids) : Hits(projectiles[pit], asteroids[j])

\* C1: when pass A resolves the collision of a projectile of damage D with the
\* asteroid of hit-points H it overlaps, afterwards the asteroid, if still in
\* the population, has H - D hit-points; it is gone iff H - D <= 0; and the
\* projectile is gone in every case.
C1_HitResolution ==
    [][ ResolvingHit =>
        LET p == projectiles[pit]
            a == asteroids[FirstHit(p, asteroids)]
            after == {b \in Range(asteroids') : b.id = a.id}
        IN /\ \A b \in after : b.hp = a.hp - p.dmg
           /\ (after = {}) <=> (a.hp - p.dmg <= 0)
           /\ p.id \notin Ids(projectiles')
           /\ Len(projectiles') = Len(projectiles) - 1
           /\ Len(asteroids') = Len(asteroids) - (IF after = {} THEN 1 ELSE 0) ]_vars

\* C1 witness: in one pass A a projectile has killed an asteroid and another
\* asteroid has survived a hit with fewer hit-points than its class starts with
C1_Witness ==
    /\ pc = "passA"
    /\ killed # {}
    /\ \E a \in Range(asteroids) : a.hp < GetMaxHP(a)

\* C2: pass B does not start before pass A has ended (no asteroid has damaged
\* the player in a frame whose pass A is still running), and an asteroid a
\* projectile killed in a frame never damages the player in that frame.
C2_KilledNeverDamages ==
    /\ pc = "passA" => damagers = {}
    /\ \A k \in killed : k.id \notin damagers /\ k.id \notin Ids(asteroids)

\* C2 witness: the frame has ended with the player alive, and an asteroid a
\* projectile killed in it overlapped the player
C2_Witness ==
    /\ pc = "frame"
    /\ player.alive
    /\ \E k \in killed : Collides(player, k)

\* C3: an asteroid examined by pass B while the player is alive and closer
\* than the sum of the radii costs the player baseDamage x size hit-points and
\* is marked, its hit-points unread and unchanged; the marked asteroids are
\* removed at the end of the pass.
C3_PlayerContact ==
    [][ pc = "passB" =>
        IF ait <= Len(asteroids)
        THEN (player.alive /\ Collides(player, asteroids[ait])) =>
                /\ player'.hp = player.hp - asteroids[ait].baseDamage * asteroids[ait].size
                /\ ait \in marked'
                /\ asteroids' = asteroids
        ELSE \A i \in marked : asteroids[i].id \notin Ids(asteroids') ]_vars

\* C3 witness: pass B has marked, on contact with the player, an asteroid
\* that a projectile had damaged before
C3_Witness ==
    /\ pc = "passB"
    /\ \E i \in marked : /\ asteroids[i].id \in damagers
                         /\ asteroids[i].hp < GetMaxHP(asteroids[i])

\* Distance of an asteroid outside the viewport from the edge it is beyond
EdgeDistance(a) ==
    IF a.y < 0 THEN -a.y
    ELSE IF a.x > C_WIDTH THEN a.x - C_WIDTH
    ELSE IF a.y > C_HEIGHT THEN a.y - C_HEIGHT
    ELSE -a.x

\* C4: a freshly spawned asteroid of any size class lies outside the viewport
\* at a distance from its edge equal to its own radius, 16 x size
C4_SpawnAtOwnRadius ==
    [][ (pc = "spawn" /\ Len(asteroids') = Len(asteroids) + 1) =>
        LET a == asteroids'[Len(asteroids')]
        IN EdgeDistance(a) = Px(16) * a.size ]_vars

\* The step about to be taken is the restart of a dead player
Restarting == pc = "restart" /\ ~player.alive /\ IsKeyPressed("R")

\* C5: a player with hp <= 0 is not alive, and from a state in which the
\* player is not alive every step except a restart leaves it not alive with
\* the hit-points it died with.
C5_DeathOneWay ==
    [][ /\ player'.hp <= 0 => ~player'.alive
        /\ (~player.alive /\ ~Restarting) =>
              (~player'.alive /\ player'.hp = player.hp) ]_vars

\* C5 witness: in a frame after the one it died in, the dead player is
\* overlapped by the asteroid pass B is examining
C5_Witness ==
    /\ pc = "passB"
    /\ ~player.alive
    /\ damagers = {}
    /\ ait <= Len(asteroids)
    /\ Collides(player, asteroids[ait])

\* C6: the restart of a dead player leaves a new alive player with 100
\* hit-points at the centre of the viewport, no asteroid, no projectile, a
\* spawn timer of 0 and a spawn interval within [0.5 s, 3.0 s].
C6_Restart ==
    [][ Restarting =>
        /\ player'.alive
        /\ player'.hp = 100
        /\ 2 * player'.x = C_WIDTH
        /\ 2 * player'.y = C_HEIGHT
        /\ asteroids' = << >>
        /\ projectiles' = << >>
        /\ spawnTimer' = 0
        /\ 2 * spawnInterval' >= TicksPerSecond
        /\ spawnInterval' <= 3 * TicksPerSecond ]_vars

\* C6 witness: the restart step of a frame of positive length has acted on a
\* player that died in an earlier frame
C6_Witness ==
    /\ pc = "shape"
    /\ IsKeyPressed("R")
    /\ input.dt > 0
    /\ spawnTimer = 0
    /\ player.alive
    /\ frame >= 2

\* No firing takes place in the current frame
NotFiring == ~(player.alive /\ IsKeyDown("SPACE"))

\* C7: after the shooting step of a frame in which no firing takes place the
\* shot-timer is in [0, 1/fireRate) of the selected weapon
C7_IdleClamp ==
    (pc = "spawn" /\ NotFiring) =>
        (0 <= shotTimer /\ shotTimer < Interval(currentWeapon))

\* C8: a shooting step with the fire input held and the player alive appends
\* floor((s + dt) / interval) projectiles of the selected kind, damage 17 / 25
\* / 150, to the population and leaves the shot-timer at s + dt less that many
\* intervals, within [0, interval); a BEAM is fired at 40 x 18 = 720 pixels
\* per second, straight up when the ship has not turned.
C8_FiringCadence ==
    [][ (pc = "shoot" /\ player.alive /\ IsKeyDown("SPACE")) =>
        LET interval == TicksPerSecond \div
                          (CASE currentWeapon = LASER -> 18
                             [] currentWeapon = BULLET -> 12
                             [] currentWeapon = MINE -> 2)
            n == (shotTimer + input.dt) \div interval
            old == Len(projectiles)
        IN /\ Len(projectiles') = old + n
           /\ SubSeq(projectiles', 1, old) = projectiles
           /\ shotTimer' = shotTimer + input.dt - n * interval
           /\ 0 <= shotTimer' /\ shotTimer' < interval
           /\ \A i \in old + 1 .. old + n :
                LET p == projectiles'[i]
                IN /\ p.type = currentWeapon
                   /\ p.dmg = (CASE currentWeapon = LASER -> 17
                                 [] currentWeapon = BULLET -> 25
                                 [] currentWeapon = MINE -> 150)
                   /\ (currentWeapon = LASER /\ player.rotation = 0) =>
                         (p.vx = 0 /\ p.vy = -720)
                   /\ currentWeapon = MINE => (p.vx = 0 /\ p.vy = 0) ]_vars

\* C8 witness: the BEAM has been fired from a shot-timer of 0 for 1/18 s in
\* two frames of 1/36 s, and the one projectile is in the population
C8_Witness ==
    /\ pc = "spawn"
    /\ frame = 2
    /\ input.dt = 1
    /\ currentWeapon = LASER
    /\ shotTimer = 0
    /\ Len(projectiles) = 1
    /\ projectiles[1].dmg = 17

\* C10: an asteroid is created with the hit-points of its size class, 25,
\* 100, 300 or 1000, and from one step to the next its hit-points never
\* increase; they change only in pass A, by 17, 25 or 150.
C10_HitPointsNonIncreasing ==
    [][ \A j \in 1 .. Len(asteroids') :
          LET b == asteroids'[j]
              before == {a \in Range(asteroids) : a.id = b.id}
          IN IF before = {}
             THEN b.hp = (CASE b.size = SMALL -> 25 [] b.size = MEDIUM -> 100
                            [] b.size = LARGE -> 300 [] b.size = GIGA -> 1000)
             ELSE \A a \in before :
                    /\ b.hp <= a.hp
                    /\ b.hp # a.hp => (pc = "passA" /\ a.hp - b.hp \in {17, 25, 150}) ]_vars

\* C10 witness: an asteroid in the population has been hit twice
C10_Witness ==
    \E a \in Range(asteroids) :
        \E d1, d2 \in {17, 25, 150} : a.hp = GetMaxHP(a) - d1 - d2

\* C9: the population never exceeds 150 asteroids; only the spawn step adds
\* an asteroid, at most one, and only when spawn-timer >= spawn-interval with
\* fewer than 150 asteroids, and then the spawn-timer is 0 and the interval is
\* within [0.5 s, 3.0 s]; otherwise, as with 150 asteroids, the step adds
\* nothing and leaves the spawn-timer and the interval as they are.
C9_Capacity ==
    [][ /\ Len(asteroids') <= 150
        /\ pc # "spawn" => Len(asteroids') <= Len(asteroids)
        /\ pc = "spawn" =>
             IF spawnTimer >= spawnInterval /\ Len(asteroids) < 150
             THEN /\ Len(asteroids') = Len(asteroids) + 1
                  /\ SubSeq(asteroids', 1, Len(asteroids)) = asteroids
                  /\ spawnTimer' = 0
                  /\ 2 * spawnInterval' >= TicksPerSecond
                  /\ spawnInterval' <= 3 * TicksPerSecond
             ELSE /\ asteroids' = asteroids
                  /\ spawnTimer' = spawnTimer
                  /\ spawnInterval' = spawnInterval ]_vars

\* C9 witness: a spawn step has passed with the timer due and 150 asteroids
\* in the population: nothing was added and the timer kept running
C9_Witness ==
    /\ pc = "projectiles"
    /\ Len(asteroids) = 150
    /\ spawnTimer >= 2 * spawnInterval

\* The class of an asteroid object: its size and base damage as the subclass
\* constructors set them
ClassOf(a) ==
    CASE a.size = SMALL /\ a.baseDamage = 5 -> "TRIANGLE"
      [] a.size = MEDIUM /\ a.baseDamage = 10 -> "SQUARE"
      [] a.size = LARGE /\ a.baseDamage = 15 -> "PENTAGON"
      [] a.size = GIGA /\ a.baseDamage = 10 -> "GIGA"
      [] OTHER -> "NONE"

\* C11: a spawn in RANDOM mode draws r in [0, 100) and creates a
\* SMALL/TRIANGLE asteroid iff 0 <= r <= 44, MEDIUM/SQUARE iff 45 <= r <= 74,
\* LARGE/PENTAGON iff 75 <= r <= 94 and GIGA iff 95 <= r <= 99; a spawn in a
\* concrete mode creates the asteroid of that class and draws nothing.
C11_RandomShapeBands ==
    [][ (pc = "spawn" /\ Len(asteroids') = Len(asteroids) + 1) =>
        LET a == asteroids'[Len(asteroids')]
            r == randomShape'
        IN IF currentShape = "RANDOM"
           THEN /\ r \in 0 .. 99
                /\ ClassOf(a) = "TRIANGLE" <=> (0 <= r /\ r <= 44)
                /\ ClassOf(a) = "SQUARE" <=> (45 <= r /\ r <= 74)
                /\ ClassOf(a) = "PENTAGON" <=> (75 <= r /\ r <= 94)
                /\ ClassOf(a) = "GIGA" <=> (95 <= r /\ r <= 99)
           ELSE /\ ClassOf(a) = currentShape
                /\ r = -1 ]_vars

\* C11 witness: the draw 80 in RANDOM mode has created a LARGE/PENTAGON asteroid
C11_Witness ==
    /\ pc = "projectiles"
    /\ currentShape = "RANDOM"
    /\ randomShape = 80
    /\ asteroids # << >>
    /\ ClassOf(asteroids[Len(asteroids)]) = "PENTAGON"
    /\ asteroids[Len(asteroids)].size = LARGE

\* A position inside the rectangle [0, width] x [0, height]
InViewport(q) == 0 <= q.x /\ q.x <= C_WIDTH /\ 0 <= q.y /\ q.y <= C_HEIGHT

\* C12: the projectile update step advances every projectile of the
\* population, those fired in this frame included, by velocity x dt, takes dt
\* off its lifetime, and keeps it iff afterwards its lifetime is > 0 and its
\* position is inside [0, width] x [0, height]; so every projectile of the
\* population while pass A runs is inside the viewport with lifetime > 0.
C12_ProjectileIntegrateAndCull ==
    [][ /\ pc = "projectiles" =>
            LET after(i) == [projectiles[i] EXCEPT
                                !.x = @ + projectiles[i].vx * input.dt,
                                !.y = @ + projectiles[i].vy * input.dt,
                                !.life = @ - input.dt]
                kept == {i \in 1 .. Len(projectiles) :
                            after(i).life > 0 /\ InViewport(after(i))}
            IN /\ Len(projectiles') = Cardinality(kept)
               /\ \A i \in 1 .. Len(projectiles) :
                     i \in kept <=> after(i) \in Range(projectiles')
               /\ \A i \in 1 .. Len(projectiles) :
                     i \in kept <=> projectiles[i].id \in Ids(projectiles')
        /\ pc' = "passA" =>
            \A q \in Range(projectiles') : q.life > 0 /\ InViewport(q) ]_vars

\* C12 witness: pass A is about to start in a frame without restart in which
\* one projectile has run out of lifetime, one fired in this very frame has
\* left the viewport, and one is still in flight
C12_Witness ==
    /\ pc = "passA"
    /\ pit = 1
    /\ ~IsKeyPressed("R")
    /\ \E i \in DOMAIN flight : flight[i].time >= Seconds(10) /\ i \notin Ids(projectiles)
    /\ \E i \in DOMAIN flight : flight[i].time = input.dt /\ i \notin Ids(projectiles)
    /\ \E q \in Range(projectiles) : q.life < Seconds(10) - input.dt

\* An asteroid position strictly outside the viewport extended by r on every side
OutsideExtended(b, r) ==
    b.x < -r \/ b.x > C_WIDTH + r \/ b.y < -r \/ b.y > C_HEIGHT + r

\* C13: an asteroid pass B examines without a collision with the living
\* player is advanced by velocity x dt and is marked iff its new position is
\* strictly outside the viewport extended by its radius 16 x size, so on the
\* extended boundary it is kept; the end of the pass removes exactly the
\* marked asteroids and keeps the others in their order.
C13_AsteroidIntegrateAndCull ==
    [][ pc = "passB" =>
        IF ait <= Len(asteroids)
        THEN ~(player.alive /\ Collides(player, asteroids[ait])) =>
                LET a == asteroids[ait]
                    b == asteroids'[ait]
                IN /\ b = [a EXCEPT !.x = a.x + a.vx * input.dt,
                                    !.y = a.y + a.vy * input.dt]
                   /\ Len(asteroids') = Len(asteroids)
                   /\ \A i \in 1 .. Len(asteroids) : i # ait => asteroids'[i] = asteroids[i]
                   /\ ait \in marked' <=> OutsideExtended(b, Px(16) * a.size)
                   /\ marked' \ {ait} = marked
                   /\ player' = player
        ELSE /\ \A i \in 1 .. Len(asteroids) :
                  i \in marked <=> asteroids[i].id \notin Ids(asteroids')
             /\ Len(asteroids') = Len(asteroids) - Cardinality(marked)
             /\ \A i, j \in 1 .. Len(asteroids') :
                  i < j => asteroids'[i].id < asteroids'[j].id ]_vars

\* C13 witness: in one pass B an asteroid that damaged nobody has been marked
\* for leaving the extended viewport, and another has been advanced onto the
\* extended boundary itself, x = width + radius, and kept
C13_Witness ==
    /\ pc = "passB"
    /\ damagers = {}
    /\ marked # {}
    /\ \E i \in 1 .. Len(asteroids) :
          /\ i < ait
          /\ i \notin marked
          /\ asteroids[i].vx > 0
          /\ asteroids[i].x = C_WIDTH + GetRadius(asteroids[i])

\* C14: a turn of pass A on a projectile that overlaps one or more asteroids
\* damages the one that comes first in the container, whether or not it is the
\* nearest, and leaves every other asteroid in the population with its
\* hit-points and its place; a turn on a projectile that overlaps none leaves
\* the projectiles and the asteroids as they are.
C14_FirstInOrderOnly ==
    [][ (pc = "passA" /\ pit <= Len(projectiles)) =>
        LET p == projectiles[pit]
            hit == {j \in 1 .. Len(asteroids) : Hits(p, asteroids[j])}
        IN IF hit = {}
           THEN projectiles' = projectiles /\ asteroids' = asteroids
           ELSE LET first == CHOOSE j \in hit : \A k \in hit : j <= k
                    gone == IF asteroids[first].id \in Ids(asteroids') THEN 0 ELSE 1
                IN /\ Len(asteroids') = Len(asteroids) - gone
                   /\ \A i \in 1 .. first - 1 : asteroids'[i] = asteroids[i]
                   /\ \A i \in first + 1 .. Len(asteroids) :
                         asteroids'[i - gone] = asteroids[i]
                   /\ gone = 0 => /\ asteroids'[first].hp = asteroids[first].hp - p.dmg
                                  /\ asteroids'[first].id = asteroids[first].id
                   /\ projectiles' = Erase(projectiles, pit) ]_vars

\* C14 witness: pass A has resolved the hit of a projectile that overlapped
\* two asteroids or more; the one it damaged was not the nearest, and a nearer
\* one it overlapped is in the population with all its hit-points
C14_Witness ==
    /\ pc = "passA"
    /\ Cardinality(struck.overlapped) >= 2
    /\ \E a \in Range(asteroids) :
          /\ a.id \in struck.overlapped
          /\ a.id # struck.target
          /\ a.hp = GetMaxHP(a)
          /\ \E t \in Range(asteroids) \cup killed :
                /\ t.id = struck.target
                /\ (a.x - struck.x) * (a.x - struck.x) + (a.y - struck.y) * (a.y - struck.y)
                     < (t.x - struck.x) * (t.x - struck.x) + (t.y - struck.y) * (t.y - struck.y)

\* C15: the spawn interval is always within [0.5 s, 3.0 s]; the spawn timer
\* is the frame time accumulated since the program start, the last restart
\* or the last spawn, whichever came last; and a step that spawns an asteroid
\* is taken only when at least 0.5 s has accumulated since then, so never in
\* the frame of a restart.
C15_SpawnCadence ==
    [][ /\ 2 * spawnInterval >= TicksPerSecond /\ spawnInterval <= 3 * TicksPerSecond
        /\ 2 * spawnInterval' >= TicksPerSecond /\ spawnInterval' <= 3 * TicksPerSecond
        /\ spawnTimer = sinceSpawn
        /\ spawnTimer' = sinceSpawn'
        /\ Len(asteroids') > Len(asteroids) => 2 * sinceSpawn >= TicksPerSecond ]_vars

\* C15 witness: the spawn step of a frame of 0.5 s has passed without a spawn
\* because the player was restarted in that frame
C15_Witness ==
    /\ pc = "projectiles"
    /\ IsKeyPressed("R")
    /\ 2 * input.dt >= TicksPerSecond
    /\ sinceSpawn = 0
    /\ asteroids = << >>
    /\ frame >= 2

\* C16: when every frame has dt > 0, no projectile of any kind is in the
\* population after the update step of a frame in which the frame time
\* accumulated since the start of the frame it was fired in has reached 10 s:
\* the update step of that frame at the latest has removed it.
C16_RemovedWithinLifetime ==
    pc \in {"passA", "passB", "frame"} =>
        \A p \in Range(projectiles) :
            /\ p.id \in DOMAIN flight
            /\ flight[p.id].time < Seconds(10)

\* C16 witness: in a frame without restart a MINE, in flight at the start of
\* the frame, has been removed by the update step of the frame that brought
\* its flight time to 10 s
C16_Witness ==
    /\ pc = "passA"
    /\ pit = 1
    /\ ~IsKeyPressed("R")
    /\ input.dt > 0
    /\ \E i \in DOMAIN flight :
          /\ flight[i].type = MINE
          /\ flight[i].time >= Seconds(10)
          /\ flight[i].time - input.dt < Seconds(10)
          /\ i \notin Ids(projectiles)

\* C17: while the player is dead, whatever keys are held, the player update
\* leaves its x position and rotation as they are and adds speed x dt = 250
\* pixels per second x dt to its y position; the shooting step adds no
\* projectile; and pass B neither damages the player nor marks an asteroid
\* for contact with it: an asteroid it marks has left the extended viewport.
\* No other step but the restart changes the player.
C17_DeadPlayerNoControl ==
    [][ ~player.alive =>
        /\ pc = "player" =>
              /\ player'.x = player.x
              /\ player'.rotation = player.rotation
              /\ player'.y = player.y + 250 * input.dt
              /\ ~player'.alive
        /\ pc = "shoot" => projectiles' = projectiles
        /\ (pc = "passB" /\ ait <= Len(asteroids)) =>
              /\ player' = player
              /\ damagers' = damagers
              /\ ait \in marked' =>
                    OutsideExtended(asteroids'[ait], Px(16) * asteroids[ait].size)
        /\ pc \notin {"player", "restart"} => player' = player ]_vars

\* C17 witness: in a frame of positive length with the fire, move and turn
\* keys held, the player, dead since an earlier frame, has fired nothing, and
\* pass B has examined an asteroid that overlaps it and has not marked it
C17_Witness ==
    /\ pc = "passB"
    /\ ~player.alive
    /\ damagers = {}
    /\ input.dt > 0
    /\ {"SPACE", "W", "A", "Q"} \subseteq input.down
    /\ \A i \in DOMAIN flight : flight[i].time > input.dt
    /\ ait > 1
    /\ ait - 1 \notin marked
    /\ Collides(player, asteroids[ait - 1])

\* C18: in every state the player is alive iff its hit-points are > 0 and the
\* hit-points are within [-99, 100]; every step but the restart leaves them
\* as they are or lowers them, by at most 100 and only in pass B, and never
\* lowers them once they are <= 0.
C18_AliveIffPositive ==
    [][ /\ player.alive <=> player.hp > 0
        /\ player'.alive <=> player'.hp > 0
        /\ -99 <= player.hp /\ player.hp <= 100
        /\ -99 <= player'.hp /\ player'.hp <= 100
        /\ ~Restarting =>
              /\ player'.hp <= player.hp
              /\ player.hp <= 0 => player'.hp = player.hp
              /\ player'.hp < player.hp =>
                    (pc = "passB" /\ player.hp - player'.hp <= 100) ]_vars

\* C18 witness: in one scan of pass B an asteroid has brought the player's
\* hit-points below 0, and an asteroid examined after it, overlapping the
\* player, has neither damaged it nor been marked
C18_Witness ==
    /\ pc = "passB"
    /\ ~player.alive
    /\ player.hp < 0
    /\ damagers # {}
    /\ ait > 1
    /\ asteroids[ait - 1].id \notin damagers
    /\ ait - 1 \notin marked
    /\ Collides(player, asteroids[ait - 1])

\* C19: every asteroid of the population has hit-points h with 0 < h <= the
\* hit-points its size class starts with, 25, 100, 300 or 1000, in every
\* state and so at the end of every frame: the step that takes an asteroid's
\* hit-points to 0 or below also removes it.
C19_LiveAsteroidsOnly ==
    \A a \in Range(asteroids) :
        /\ 0 < a.hp
        /\ a.hp <= (CASE a.size = SMALL -> 25 [] a.size = MEDIUM -> 100
                      [] a.size = LARGE -> 300 [] a.size = GIGA -> 1000)

\* C19 witness: a frame has ended in which a hit on an asteroid that had
\* fewer hit-points left than the weakest projectile takes, so that they went
\* below 0, removed it
C19_Witness ==
    /\ pc = "frame"
    /\ frame >= 1
    /\ \E k \in killed : k.hp < 17 /\ k.id \notin Ids(asteroids)

\* C20: once the shooting step of a frame has run, and so at the end of the
\* frame, the shot-timer is within [0, 1/fireRate] of the weapon then
\* selected: 1/18 s for the BEAM, 1/12 s for the SLUG, 1/2 s for the MINE.
C20_ShotTimerWithinInterval ==
    pc \in {"spawn", "projectiles", "passA", "passB", "frame"} =>
        /\ 0 <= shotTimer
        /\ currentWeapon = LASER => 18 * shotTimer <= TicksPerSecond
        /\ currentWeapon = BULLET => 12 * shotTimer <= TicksPerSecond
        /\ currentWeapon = MINE => 2 * shotTimer <= TicksPerSecond

\* C20 witness: a frame without firing, entered with the MINE's or the SLUG's
\* carry-over, has ended with the BEAM selected and the shot-timer at one
\* full BEAM interval
C20_Witness ==
    /\ pc = "frame"
    /\ frame >= 2
    /\ ~IsKeyDown("SPACE")
    /\ IsKeyPressed("TAB")
    /\ currentWeapon = LASER
    /\ 18 * shotTimer = TicksPerSecond

====
